---- MODULE Spec2Model ----
(***************************************************************************)
(* A model of bitbucket/api.py: the BitBucket client, its User handles,    *)
(* the request it builds and the calls it makes on the transport.          *)
(*                                                                         *)
(* Python text is a sequence of one-character strings, so that base64 and  *)
(* urlencode are computed character by character; URLs are TLA+ strings.   *)
(* A Python value is a record [t, v]: None or a str.  The transport        *)
(* (urlopen) is the boundary of the model: what it does with one request   *)
(* is an input of each call, either a payload returned or an error raised. *)
(***************************************************************************)
EXTENDS Integers, Sequences, FiniteSets, TLC

\* --------------------------------------------------------------------------
\* Python values

PyNone == [t |-> "None", v |-> <<>>]
PyStr(s) == [t |-> "str", v |-> s]

\* bool(v): None and '' are false
Truthy(v) == v.t = "str" /\ v.v # <<>>

\* all((a, b))
all(vs) == \A i \in 1..Len(vs) : Truthy(vs[i])

\* '%s' % v
Format(v) == IF v.t = "None" THEN <<"N", "o", "n", "e">> ELSE v.v

RECURSIVE Join(_)
\* the text as one string
Join(s) == IF s = <<>> THEN "" ELSE Head(s) \o Join(Tail(s))

\* --------------------------------------------------------------------------
\* Characters: printable ASCII, code 32 at index 1 (the quote, the backslash and
\* the backtick are written by name)

Ascii ==
  <<" ", "!", "<quote>", "#", "$", "%", "&", "'", "(", ")", "*", "+", ",", "-", ".", "/",
    "0", "1", "2", "3", "4", "5", "6", "7", "8", "9", ":", ";", "<", "=", ">", "?",
    "@", "A", "B", "C", "D", "E", "F", "G", "H", "I", "J", "K", "L", "M", "N", "O",
    "P", "Q", "R", "S", "T", "U", "V", "W", "X", "Y", "Z", "[", "<backslash>", "]", "^", "_",
    "<backtick>", "a", "b", "c", "d", "e", "f", "g", "h", "i", "j", "k", "l", "m", "n", "o",
    "p", "q", "r", "s", "t", "u", "v", "w", "x", "y", "z", "{", "|", "}", "~">>

Ord(c) == 31 + (CHOOSE i \in 1..Len(Ascii) : Ascii[i] = c)

\* auth.encode("utf_8"): one byte per ASCII character
encode_utf_8(s) == [i \in 1..Len(s) |-> Ord(s[i])]

B64Alphabet ==
  <<"A", "B", "C", "D", "E", "F", "G", "H", "I", "J", "K", "L", "M", "N", "O", "P",
    "Q", "R", "S", "T", "U", "V", "W", "X", "Y", "Z", "a", "b", "c", "d", "e", "f",
    "g", "h", "i", "j", "k", "l", "m", "n", "o", "p", "q", "r", "s", "t", "u", "v",
    "w", "x", "y", "z", "0", "1", "2", "3", "4", "5", "6", "7", "8", "9", "+", "/">>

RECURSIVE b64encode_unpadded(_)
\* b64encode with the '=' padding of a short last group left out
b64encode_unpadded(bs) ==
  IF bs = <<>> THEN <<>>
  ELSE LET n  == Len(bs)
           b1 == bs[1]
           b2 == IF n >= 2 THEN bs[2] ELSE 0
           b3 == IF n >= 3 THEN bs[3] ELSE 0
           c1 == b1 \div 4
           c2 == (b1 % 4) * 16 + (b2 \div 16)
           c3 == (b2 % 16) * 4 + (b3 \div 64)
           c4 == b3 % 64
           group == << B64Alphabet[c1 + 1], B64Alphabet[c2 + 1] >>
                      \o (IF n >= 2 THEN <<B64Alphabet[c3 + 1]>> ELSE <<>>)
                      \o (IF n >= 3 THEN <<B64Alphabet[c4 + 1]>> ELSE <<>>)
       IN  group \o (IF n > 3 THEN b64encode_unpadded(SubSeq(bs, 4, n)) ELSE <<>>)

RECURSIVE b64encode(_)
\* base64.b64encode: three bytes become four characters, '=' pads the last group
b64encode(bs) ==
  IF bs = <<>> THEN <<>>
  ELSE LET n  == Len(bs)
           b1 == bs[1]
           b2 == IF n >= 2 THEN bs[2] ELSE 0
           b3 == IF n >= 3 THEN bs[3] ELSE 0
           c1 == b1 \div 4
           c2 == (b1 % 4) * 16 + (b2 \div 16)
           c3 == (b2 % 16) * 4 + (b3 \div 64)
           c4 == b3 % 64
           group == << B64Alphabet[c1 + 1],
                       B64Alphabet[c2 + 1],
                       IF n >= 2 THEN B64Alphabet[c3 + 1] ELSE "=",
                       IF n >= 3 THEN B64Alphabet[c4 + 1] ELSE "=" >>
       IN  group \o (IF n > 3 THEN b64encode(SubSeq(bs, 4, n)) ELSE <<>>)

IsSpace(c) == c \in {" ", "\t", "\n", "\r"}

RECURSIVE strip(_)
\* str.strip(): leading and trailing whitespace removed
strip(s) ==
  IF s = <<>> THEN s
  ELSE IF IsSpace(s[1]) THEN strip(Tail(s))
  ELSE IF IsSpace(s[Len(s)]) THEN strip(SubSeq(s, 1, Len(s) - 1))
  ELSE s

\* --------------------------------------------------------------------------
\* urlencode

HexDigits == <<"0", "1", "2", "3", "4", "5", "6", "7", "8", "9", "A", "B", "C", "D", "E", "F">>

IsUnreserved(c) ==
  LET o == Ord(c)
  IN  \/ (o >= 48 /\ o <= 57)
      \/ (o >= 65 /\ o <= 90)
      \/ (o >= 97 /\ o <= 122)
      \/ c \in {"_", ".", "-", "~"}

\* quote_plus of one character
quote_plus_char(c) ==
  IF IsUnreserved(c) THEN <<c>>
  ELSE IF c = " " THEN <<"+">>
  ELSE <<"%", HexDigits[(Ord(c) \div 16) + 1], HexDigits[(Ord(c) % 16) + 1]>>

RECURSIVE quote_plus(_)
quote_plus(s) == IF s = <<>> THEN <<>> ELSE quote_plus_char(Head(s)) \o quote_plus(Tail(s))

RECURSIVE urlencode(_)
\* urlencode of a mapping given as its sequence of <<key, value>> items
urlencode(items) ==
  IF items = <<>> THEN <<>>
  ELSE LET kv == quote_plus(items[1][1]) \o <<"=">> \o quote_plus(items[1][2])
       IN  IF Len(items) = 1 THEN kv ELSE kv \o <<"&">> \o urlencode(Tail(items))

\* --------------------------------------------------------------------------
\* Module constants

api_toplevel == "https://api.bitbucket.org/"
api_base == api_toplevel \o "2.0/"

\* --------------------------------------------------------------------------
\* The bounded inputs

\* the number of User handles a run creates
MaxUsers == 1

Usernames == {PyStr(<<>>), PyStr(<<"u">>), PyStr(<<"a", "b">>)}
Passwords == {PyStr(<<>>), PyStr(<<"p">>)}
OAuthKeys == {PyStr(<<>>), PyStr(<<"k">>)}
OAuthSecrets == {PyStr(<<>>), PyStr(<<"s">>)}

\* the usernames a User handle is bound to: the absent sentinel, '' and a name
HandleNames == {PyNone, PyStr(<<>>), PyStr(<<"a", "l">>)}

Urls == {api_base \o "user/", "http://localhost/x?y=1"}
Methods == {"GET", "POST"}
Datas == {PyNone, PyStr(<<>>), PyStr(<<"a", "=", "1">>)}

RepoDatas ==
  { <<>>,
    << <<(<<"n", "a", "m", "e">>), <<"r">>>> >>,
    << <<(<<"n", "a", "m", "e">>), <<"a", " ", "b">>>>, <<(<<"s", "c", "m">>), <<"g", "&", "h">>>> >> }

\* a decoded JSON document: an object with its keys (and its values array, its
\* next-page link) or an array
Docs ==
  { [t |-> "obj", keys |-> {"values", "pagelen", "next"}, values |-> <<"r1", "r2">>,
     next |-> api_base \o "repositories/al?pagelen=100&page=2"],
    [t |-> "obj", keys |-> {"values"}, values |-> <<"r2", "r1">>, next |-> ""],
    [t |-> "obj", keys |-> {"a"}, values |-> <<>>, next |-> ""],
    [t |-> "arr", keys |-> {}, values |-> <<>>, next |-> ""] }

NoDoc == [t |-> "arr", keys |-> {}, values |-> <<>>, next |-> ""]

\* what the server sends: the bytes of a JSON document, bytes that are no JSON,
\* bytes that are no UTF-8
Payloads ==
  {[kind |-> "json", doc |-> d] : d \in Docs}
    \cup {[kind |-> "notjson", doc |-> NoDoc], [kind |-> "badutf8", doc |-> NoDoc]}

\* what urlopen(request).read() does with one request: returns a payload or raises
Nets ==
  {[raises |-> "", payload |-> p] : p \in Payloads}
    \cup {[raises |-> "URLError", payload |-> [kind |-> "notjson", doc |-> NoDoc]]}

\* --------------------------------------------------------------------------
\* State

VARIABLES
  bb,        \* the BitBucket object: username, password, oauth_key, oauth_secret, verbose
  oauthlib,  \* whether `import oauthlib.oauth1` succeeds in this interpreter
  users,     \* the User objects created so far, in order of creation
  last       \* the last call: operation, arguments, exception, return value, events

vars == <<bb, oauthlib, users, last>>

\* --------------------------------------------------------------------------
\* Results and events of a call

\* one observable step of a call: a line printed, the request built, urlopen called
Ev(kind, url, req, payload) == [e |-> kind, url |-> url, req |-> req, payload |-> payload]

Return(value, events) == [exc |-> "", ret |-> <<value>>, events |-> events]
Raise(exception, events) == [exc |-> exception, ret |-> <<>>, events |-> events]

\* --------------------------------------------------------------------------
\* urllib's Request

Request(url, data, headers) == [url |-> url, data |-> data, headers |-> headers, method |-> ""]

\* Request.get_method(): the override when one was set, else POST exactly when
\* the request has data
get_method(request) ==
  IF request.method # "" THEN request.method
  ELSE IF request.data.t # "None" THEN "POST" ELSE "GET"

\* oauthlib.oauth1.Client(key, client_secret=secret).sign(url): the headers of
\* the signed request; the signature itself is opaque, the consumer key is kept
sign(oauth_key, oauth_secret, url) ==
  {<<"Authorization", [scheme |-> "OAuth", credentials |-> oauth_key.v]>>}

\* --------------------------------------------------------------------------
\* class BitBucket

BitBucket(username, password, oauth_key, oauth_secret, verbose) ==
  [username |-> username, password |-> password, oauth_key |-> oauth_key,
   oauth_secret |-> oauth_secret, verbose |-> verbose]

\* build_request with the Basic test made before the OAuth test
build_request_basic_first(self, url, method, data) ==
  IF all(<<self.username, self.password>>)
  THEN LET auth == Format(self.username) \o <<":">> \o Format(self.password)
           token == strip(b64encode(encode_utf_8(auth)))
           header == {<<"Authorization", [scheme |-> "Basic", credentials |-> token]>>}
       IN  Return([Request(url, data, header) EXCEPT !.method = method], <<>>)
  ELSE IF all(<<self.oauth_key, self.oauth_secret>>)
  THEN IF ~oauthlib
       THEN Raise("SystemExit", <<Ev("print_install_oauthlib", url, <<>>, <<>>)>>)
       ELSE Return(Request(url, data, sign(self.oauth_key, self.oauth_secret, url)), <<>>)
  ELSE Return(Request(url, PyNone, {}), <<>>)

\* build_request with the OAuth request given the body sign() returned (None)
\* in place of data
build_request_signed_body(self, url, method, data) ==
  IF all(<<self.oauth_key, self.oauth_secret>>)
  THEN IF ~oauthlib
       THEN Raise("SystemExit", <<Ev("print_install_oauthlib", url, <<>>, <<>>)>>)
       ELSE Return(Request(url, PyNone, sign(self.oauth_key, self.oauth_secret, url)), <<>>)
  ELSE IF all(<<self.username, self.password>>)
  THEN LET auth == Format(self.username) \o <<":">> \o Format(self.password)
           token == strip(b64encode(encode_utf_8(auth)))
           header == {<<"Authorization", [scheme |-> "Basic", credentials |-> token]>>}
       IN  Return([Request(url, data, header) EXCEPT !.method = method], <<>>)
  ELSE Return(Request(url, PyNone, {}), <<>>)

build_request(self, url, method, data) ==
  IF all(<<self.oauth_key, self.oauth_secret>>)
  THEN IF ~oauthlib
       THEN Raise("SystemExit", <<Ev("print_install_oauthlib", url, <<>>, <<>>)>>)
       ELSE Return(Request(url, data, sign(self.oauth_key, self.oauth_secret, url)), <<>>)
  ELSE IF all(<<self.username, self.password>>)
  THEN LET auth == Format(self.username) \o <<":">> \o Format(self.password)
           token == strip(b64encode(encode_utf_8(auth)))
           header == {<<"Authorization", [scheme |-> "Basic", credentials |-> token]>>}
       IN  Return([Request(url, data, header) EXCEPT !.method = method], <<>>)
  ELSE Return(Request(url, PyNone, {}), <<>>)

\* load_url that calls the transport a second time when the first call fails
load_url_retries(self, url, method, data, net) ==
  LET said == IF self.verbose THEN <<Ev("print_url", url, <<>>, <<>>)>> ELSE <<>>
      built == build_request(self, url, method, data)
      before == said \o <<Ev("build_request", url, <<>>, <<>>)>> \o built.events
  IN  IF built.exc # "" THEN Raise(built.exc, before)
      ELSE LET sent == before \o <<Ev("urlopen", url, built.ret, <<>>)>>
           IN  IF net.raises # ""
               THEN Raise(net.raises, sent \o <<Ev("urlopen", url, built.ret, <<>>)>>)
               ELSE Return(net.payload,
                           sent \o (IF self.verbose
                                    THEN <<Ev("print_response", url, <<>>, <<net.payload>>)>>
                                    ELSE <<>>))

\* load_url that prints the URL once the response is there
load_url_prints_late(self, url, method, data, net) ==
  LET said == IF self.verbose THEN <<Ev("print_url", url, <<>>, <<>>)>> ELSE <<>>
      built == build_request(self, url, method, data)
      before == <<Ev("build_request", url, <<>>, <<>>)>> \o built.events
  IN  IF built.exc # "" THEN Raise(built.exc, before)
      ELSE LET sent == before \o <<Ev("urlopen", url, built.ret, <<>>)>>
           IN  IF net.raises # "" THEN Raise(net.raises, sent)
               ELSE Return(net.payload,
                           sent \o said
                                \o (IF self.verbose
                                    THEN <<Ev("print_response", url, <<>>, <<net.payload>>)>>
                                    ELSE <<>>))

load_url(self, url, method, data, net) ==
  LET said == IF self.verbose THEN <<Ev("print_url", url, <<>>, <<>>)>> ELSE <<>>
      built == build_request(self, url, method, data)
      before == said \o <<Ev("build_request", url, <<>>, <<>>)>> \o built.events
  IN  IF built.exc # "" THEN Raise(built.exc, before)
      ELSE LET sent == before \o <<Ev("urlopen", url, built.ret, <<>>)>>
           IN  IF net.raises # "" THEN Raise(net.raises, sent)
               ELSE Return(net.payload,
                           sent \o (IF self.verbose
                                    THEN <<Ev("print_response", url, <<>>, <<net.payload>>)>>
                                    ELSE <<>>))

\* bytes.decode('utf-8')
decode_utf_8(payload) ==
  IF payload.kind = "badutf8" THEN Raise("UnicodeDecodeError", <<>>) ELSE Return(payload, <<>>)

\* json.loads
json_loads(payload) ==
  IF payload.kind = "badutf8" THEN Raise("UnicodeDecodeError", <<>>)
  ELSE IF payload.kind = "notjson" THEN Raise("ValueError", <<>>)
  ELSE Return(payload.doc, <<>>)

\* document[key]
getitem(doc, key) ==
  IF doc.t # "obj" THEN Raise("TypeError", <<>>)
  ELSE IF key \notin doc.keys THEN Raise("KeyError", <<>>)
  ELSE Return(doc.values, <<>>)

\* the object a reference held by a User points to
Deref(ref) == bb

\* the decorator raising only when username and password are both empty
requires_authentication_any(self, name, called) ==
  LET username == IF "bb" \in DOMAIN self THEN Deref(self.bb).username ELSE self.username
      password == IF "bb" \in DOMAIN self THEN Deref(self.bb).password ELSE self.password
  IN  IF ~(Truthy(username) \/ Truthy(password))
      THEN Raise("AuthenticationRequired: " \o name \o " requires authentication", <<>>)
      ELSE called

\* the decorator: `called` is what the decorated method does when it is called
requires_authentication(self, name, called) ==
  LET username == IF "bb" \in DOMAIN self THEN Deref(self.bb).username ELSE self.username
      password == IF "bb" \in DOMAIN self THEN Deref(self.bb).password ELSE self.password
  IN  IF ~all(<<username, password>>)
      THEN Raise("AuthenticationRequired: " \o name \o " requires authentication", <<>>)
      ELSE called

\* json.loads(self.load_url(...)): the loaded payload decoded, the events kept
loads_of(loaded) ==
  IF loaded.exc # "" THEN loaded
  ELSE LET doc == json_loads(loaded.ret[1])
       IN  [doc EXCEPT !.events = loaded.events]

\* json.loads(self.bb.load_url(url).decode('utf-8'))
loads_of_decoded(loaded) ==
  IF loaded.exc # "" THEN loaded
  ELSE LET text == decode_utf_8(loaded.ret[1])
       IN  IF text.exc # "" THEN [text EXCEPT !.events = loaded.events]
           ELSE loads_of(loaded)

emails(self, net) ==
  requires_authentication(self, "emails",
    LET url == api_base \o "emails/"
    IN  loads_of(load_url(self, url, "GET", PyNone, net)))

create_repo(self, repo_data, net) ==
  requires_authentication(self, "create_repo",
    LET url == api_base \o "repositories/"
    IN  loads_of(load_url(self, url, "POST", PyStr(urlencode(repo_data)), net)))

repr_BitBucket(self) ==
  LET extra == IF all(<<self.username, self.password>>)
               THEN " (auth: " \o Join(Format(self.username)) \o ")"
               ELSE ""
  IN  Return("<BitBucket API" \o extra \o ">", <<>>)

\* --------------------------------------------------------------------------
\* class User

User(ref, username) == [bb |-> ref, username |-> username]

\* get taking every empty username, not None alone, for the caller itself
get_empty_is_self(self, net) ==
  LET url == IF ~Truthy(self.username)
             THEN api_base \o "user/"
             ELSE api_base \o "teams/" \o Join(Format(self.username))
  IN  loads_of_decoded(load_url(Deref(self.bb), url, "GET", PyNone, net))

get(self, net) ==
  LET url == IF self.username.t = "None"
             THEN api_base \o "user/"
             ELSE api_base \o "teams/" \o Join(Format(self.username))
  IN  loads_of_decoded(load_url(Deref(self.bb), url, "GET", PyNone, net))

\* get_repos refusing every empty username, not None alone
get_repos_empty_is_missing(self, net) ==
  IF ~Truthy(self.username)
  THEN Raise("Exception: username missing", <<>>)
  ELSE LET url == api_base \o "repositories/" \o Join(Format(self.username)) \o "?pagelen=100"
       IN  loads_of_decoded(load_url(Deref(self.bb), url, "GET", PyNone, net))

get_repos(self, net) ==
  IF self.username.t = "None"
  THEN Raise("Exception: username missing", <<>>)
  ELSE LET url == api_base \o "repositories/" \o Join(Format(self.username)) \o "?pagelen=100"
       IN  loads_of_decoded(load_url(Deref(self.bb), url, "GET", PyNone, net))

\* repositories following the next-page link of the response
repositories_follows_next(self, net) ==
  LET raw == get_repos(self, net)
  IN  IF raw.exc # "" THEN raw
      ELSE LET values == getitem(raw.ret[1], "values")
               doc == raw.ret[1]
           IN  IF values.exc = "" /\ "next" \in doc.keys
               THEN LET more == loads_of_decoded(
                                  load_url(Deref(self.bb), doc.next, "GET", PyNone, net))
                    IN  [values EXCEPT !.events = raw.events \o more.events]
               ELSE [values EXCEPT !.events = raw.events]

repositories(self, net) ==
  LET raw == get_repos(self, net)
  IN  IF raw.exc # "" THEN raw
      ELSE LET values == getitem(raw.ret[1], "values")
           IN  [values EXCEPT !.events = raw.events]

repr_User(self) == Return("<User: " \o Join(Format(self.username)) \o ">", <<>>)

\* --------------------------------------------------------------------------
\* The calls a program makes on the wrapper

NoArgs == [url |-> "", method |-> "", data |-> PyNone, repo_data |-> <<>>]

\* the record of a call: `h` is the User it was made on, 0 for the BitBucket
\* object; `net` is what the transport would do with a request of this call
Called(op, h, args, net, result) ==
  [op |-> op, h |-> h, args |-> args, net |-> net,
   exc |-> result.exc, ret |-> result.ret, events |-> result.events]

NoNet == [raises |-> "", payload |-> [kind |-> "notjson", doc |-> NoDoc]]

\* no call is under way: the calling program is between two calls
Idle == Called("", 0, NoArgs, NoNet, Raise("", <<>>))

Ready == last = Idle

Init ==
  /\ bb \in {BitBucket(u, p, k, s, v) :
               u \in Usernames, p \in Passwords, k \in OAuthKeys, s \in OAuthSecrets,
               v \in BOOLEAN}
  /\ oauthlib \in BOOLEAN
  /\ users = <<>>
  /\ last = Idle

Call_build_request ==
  \E url \in Urls, method \in Methods, data \in Datas :
    /\ Ready
    /\ last' = Called("build_request", 0,
                      [NoArgs EXCEPT !.url = url, !.method = method, !.data = data],
                      NoNet, build_request(bb, url, method, data))
    /\ UNCHANGED <<bb, oauthlib, users>>

Call_load_url ==
  \E url \in Urls, method \in Methods, data \in Datas, net \in Nets :
    /\ Ready
    /\ last' = Called("load_url", 0,
                      [NoArgs EXCEPT !.url = url, !.method = method, !.data = data],
                      net, load_url(bb, url, method, data, net))
    /\ UNCHANGED <<bb, oauthlib, users>>

Call_user ==
  \E username \in HandleNames :
    /\ Ready
    /\ Len(users) < MaxUsers
    /\ users' = Append(users, User("bb", username))
    /\ last' = Called("user", 0, NoArgs, NoNet, Return(Len(users) + 1, <<>>))
    /\ UNCHANGED <<bb, oauthlib>>

Call_emails ==
  \E net \in Nets :
    /\ Ready
    /\ last' = Called("emails", 0, NoArgs, net, emails(bb, net))
    /\ UNCHANGED <<bb, oauthlib, users>>

Call_create_repo ==
  \E repo_data \in RepoDatas, net \in Nets :
    /\ Ready
    /\ last' = Called("create_repo", 0, [NoArgs EXCEPT !.repo_data = repo_data],
                      net, create_repo(bb, repo_data, net))
    /\ UNCHANGED <<bb, oauthlib, users>>

Call_repr_BitBucket ==
  /\ Ready
  /\ last' = Called("repr_BitBucket", 0, NoArgs, NoNet, repr_BitBucket(bb))
  /\ UNCHANGED <<bb, oauthlib, users>>

\* get binding the handle to the empty username once it has been called
Call_get_rebinds ==
  \E h \in DOMAIN users, net \in Nets :
    /\ Ready
    /\ last' = Called("get", h, NoArgs, net, get(users[h], net))
    /\ users' = [users EXCEPT ![h].username = PyStr(<<>>)]
    /\ UNCHANGED <<bb, oauthlib>>

Call_get ==
  \E h \in DOMAIN users, net \in Nets :
    /\ Ready
    /\ last' = Called("get", h, NoArgs, net, get(users[h], net))
    /\ UNCHANGED <<bb, oauthlib, users>>

Call_get_repos ==
  \E h \in DOMAIN users, net \in Nets :
    /\ Ready
    /\ last' = Called("get_repos", h, NoArgs, net, get_repos(users[h], net))
    /\ UNCHANGED <<bb, oauthlib, users>>

Call_repositories ==
  \E h \in DOMAIN users, net \in Nets :
    /\ Ready
    /\ last' = Called("repositories", h, NoArgs, net, repositories(users[h], net))
    /\ UNCHANGED <<bb, oauthlib, users>>

Call_repr_User ==
  \E h \in DOMAIN users :
    /\ Ready
    /\ last' = Called("repr_User", h, NoArgs, NoNet, repr_User(users[h]))
    /\ UNCHANGED <<bb, oauthlib, users>>

\* the calling program takes the result (or the exception) of the call that
\* ended and is ready for its next call; the wrapper keeps nothing of the call
Resume ==
  /\ ~Ready
  /\ last' = Idle
  /\ UNCHANGED <<bb, oauthlib, users>>

Next ==
  \/ Call_build_request
  \/ Call_load_url
  \/ Call_user
  \/ Call_emails
  \/ Call_create_repo
  \/ Call_repr_BitBucket
  \/ Call_get
  \/ Call_get_repos
  \/ Call_repositories
  \/ Call_repr_User
  \/ Resume

Spec == Init /\ [][Next]_vars

\* --------------------------------------------------------------------------
\* Reading a call

IsUrlopen(e) == e.e = "urlopen"
IsDiagnostic(e) == e.e \in {"print_url", "print_response"}

\* the transport calls of the last call, in order, and the requests they carried
Sent == SelectSeq(last.events, IsUrlopen)
SentRequest == Sent[1].req[1]

Outcome(op) == last.op = op

BasicSet == Truthy(bb.username) /\ Truthy(bb.password)
OAuthSet == Truthy(bb.oauth_key) /\ Truthy(bb.oauth_secret)

\* both OAuth fields are set and oauthlib cannot be imported: build_request
\* prints the install hint and leaves through sys.exit(0)
OAuthUnavailable == OAuthSet /\ ~oauthlib

AuthorizationOf(request) == {h[2] : h \in {x \in request.headers : x[1] = "Authorization"}}

AuthenticationRequiredOf(name) == "AuthenticationRequired: " \o name \o " requires authentication"
UsernameMissing == "Exception: username missing"

\* base64 read back: four characters become up to three bytes
B64Index(c) == (CHOOSE i \in 1..Len(B64Alphabet) : B64Alphabet[i] = c) - 1

RECURSIVE b64decode(_)
b64decode(cs) ==
  IF cs = <<>> THEN <<>>
  ELSE LET pad3 == cs[3] = "="
           pad4 == cs[4] = "="
           i1 == B64Index(cs[1])
           i2 == B64Index(cs[2])
           i3 == IF pad3 THEN 0 ELSE B64Index(cs[3])
           i4 == IF pad4 THEN 0 ELSE B64Index(cs[4])
           b1 == i1 * 4 + (i2 \div 16)
           b2 == (i2 % 16) * 16 + (i3 \div 4)
           b3 == (i3 % 4) * 64 + i4
           bytes == IF pad3 THEN <<b1>> ELSE IF pad4 THEN <<b1, b2>> ELSE <<b1, b2, b3>>
       IN  bytes \o b64decode(SubSeq(cs, 5, Len(cs)))

\* the request carries Authorization: Basic base64("username:password")
CarriesBasic(request, username, password) ==
  \E a \in AuthorizationOf(request) :
    /\ a.scheme = "Basic"
    /\ Len(a.credentials) % 4 = 0
    /\ b64decode(a.credentials) = encode_utf_8(username.v \o <<":">> \o password.v)

\* a form body read back into its items
RECURSIVE SplitOn(_, _)
SplitOn(s, sep) ==
  IF \A i \in 1..Len(s) : s[i] # sep THEN <<s>>
  ELSE LET i == CHOOSE k \in 1..Len(s) : s[k] = sep /\ \A j \in 1..(k - 1) : s[j] # sep
       IN  <<SubSeq(s, 1, i - 1)>> \o SplitOn(SubSeq(s, i + 1, Len(s)), sep)

HexValue(c) == (CHOOSE i \in 1..Len(HexDigits) : HexDigits[i] = c) - 1

RECURSIVE unquote_plus(_)
unquote_plus(s) ==
  IF s = <<>> THEN <<>>
  ELSE IF s[1] = "+" THEN <<" ">> \o unquote_plus(Tail(s))
  ELSE IF s[1] = "%"
       THEN <<Ascii[HexValue(s[2]) * 16 + HexValue(s[3]) - 31]>> \o unquote_plus(SubSeq(s, 4, Len(s)))
  ELSE <<s[1]>> \o unquote_plus(Tail(s))

parse_qsl(body) ==
  IF body = <<>> THEN <<>>
  ELSE LET parts == SplitOn(body, "&")
       IN  [i \in 1..Len(parts) |->
             LET kv == SplitOn(parts[i], "=")
             IN  <<unquote_plus(kv[1]), unquote_plus(kv[2])>>]

\* --------------------------------------------------------------------------
\* C1: emails and create_repo, called with an empty username or an empty
\* password (whatever oauth_key and oauth_secret are), raise
\* AuthenticationRequired naming the operation and call the transport zero
\* times; nothing at all is printed or built.
C1_AuthenticationRequired ==
  \A op \in {"emails", "create_repo"} :
    (Outcome(op) /\ ~BasicSet) =>
      /\ last.exc = AuthenticationRequiredOf(op)
      /\ last.ret = <<>>
      /\ Sent = <<>>
      /\ last.events = <<>>

C1_Witness ==
  /\ Outcome("create_repo")
  /\ Truthy(bb.username) /\ ~Truthy(bb.password) /\ OAuthSet
  /\ last.exc = AuthenticationRequiredOf("create_repo")
  /\ Sent = <<>>

\* --------------------------------------------------------------------------
\* C2 as stated: with username and password both non-empty, for every value of
\* oauth_key and oauth_secret, build_request returns a request that carries
\* Authorization: Basic base64("username:password").
C2_BasicForEveryOAuthState ==
  (Outcome("build_request") /\ BasicSet) =>
    /\ last.ret # <<>>
    /\ CarriesBasic(last.ret[1], bb.username, bb.password)

\* C2 as amended: with username and password both non-empty and oauth_key and
\* oauth_secret not both non-empty, build_request returns a request that
\* carries Authorization: Basic base64("username:password"), the token being
\* the padded base64 of the UTF-8 bytes of "username:password".
C2_BasicHeader ==
  (Outcome("build_request") /\ BasicSet /\ ~OAuthSet) =>
    /\ last.exc = ""
    /\ last.ret # <<>>
    /\ CarriesBasic(last.ret[1], bb.username, bb.password)
    /\ last.ret[1].url = last.args.url

C2_Witness ==
  /\ Outcome("build_request")
  /\ bb.username = PyStr(<<"a", "b">>) /\ bb.password = PyStr(<<"p">>)
  /\ Truthy(bb.oauth_key) /\ ~Truthy(bb.oauth_secret)
  /\ last.ret # <<>>
  /\ AuthorizationOf(last.ret[1]) =
       {[scheme |-> "Basic", credentials |-> <<"Y", "W", "I", "6", "c", "A", "=", "=">>]}

\* --------------------------------------------------------------------------
\* C3: every request build_request returns, and every request handed to the
\* transport, carries the Authorization header of exactly the scheme the
\* precedence selects and no other header: OAuth when oauth_key and
\* oauth_secret are both non-empty, else Basic when username and password are
\* both non-empty, else none.
SelectedScheme ==
  IF OAuthSet THEN {"OAuth"} ELSE IF BasicSet THEN {"Basic"} ELSE {}

BuiltRequests ==
  (IF Outcome("build_request") /\ last.ret # <<>> THEN {last.ret[1]} ELSE {})
    \cup {Sent[i].req[1] : i \in 1..Len(Sent)}

C3_OneScheme ==
  \A request \in BuiltRequests :
    /\ {a.scheme : a \in AuthorizationOf(request)} = SelectedScheme
    /\ Cardinality(request.headers) = Cardinality(SelectedScheme)
    /\ \A h \in request.headers : h[1] = "Authorization"

C3_Witness ==
  /\ Outcome("build_request")
  /\ BasicSet /\ OAuthSet
  /\ last.ret # <<>>
  /\ {a.scheme : a \in AuthorizationOf(last.ret[1])} = {"OAuth"}

\* --------------------------------------------------------------------------
\* C4: what create_repo hands to the transport
PostsRepoData ==
  /\ Len(Sent) = 1
  /\ SentRequest.url = "https://api.bitbucket.org/2.0/repositories/"
  /\ get_method(SentRequest) = "POST"
  /\ SentRequest.data.t = "str"
  /\ parse_qsl(SentRequest.data.v) = last.args.repo_data

\* C4 as stated: for every credential state that passes the authentication
\* guard, OAuth key and secret set or unset, create_repo transmits exactly one
\* request, a POST to {api_base}repositories/ with the url-encoded repo_data
\* as its body.
C4_AlwaysPosts ==
  (Outcome("create_repo") /\ BasicSet) => PostsRepoData

\* C4 as amended: the same, except when oauth_key and oauth_secret are both
\* non-empty and oauthlib cannot be imported; create_repo then transmits
\* nothing and leaves through sys.exit(0).
C4_PostsRepoData ==
  (Outcome("create_repo") /\ BasicSet) =>
    IF OAuthUnavailable
    THEN Sent = <<>> /\ last.exc = "SystemExit" /\ last.ret = <<>>
    ELSE PostsRepoData

C4_Witness ==
  /\ Outcome("create_repo")
  /\ BasicSet /\ OAuthSet /\ oauthlib
  /\ Len(last.args.repo_data) = 2
  /\ Len(Sent) = 1
  /\ get_method(SentRequest) = "POST"
  /\ SentRequest.data = PyStr(<<"n", "a", "m", "e", "=", "a", "+", "b", "&",
                                "s", "c", "m", "=", "g", "%", "2", "6", "h">>)

\* --------------------------------------------------------------------------
\* C5: what get hands to the transport, by the username the handle is bound to
ProfileUrl(username) ==
  CASE username = PyNone -> "https://api.bitbucket.org/2.0/user/"
    [] username = PyStr(<<>>) -> "https://api.bitbucket.org/2.0/teams/"
    [] username = PyStr(<<"a", "l">>) -> "https://api.bitbucket.org/2.0/teams/al"

GetsProfile ==
  /\ Len(Sent) = 1
  /\ SentRequest.url = ProfileUrl(users[last.h].username)
  /\ get_method(SentRequest) = "GET"
  /\ SentRequest.data = PyNone

\* C5 as stated: get sends its single request, a GET, to {api_base}user/ when
\* the bound username is None and to {api_base}teams/{username} for every
\* other username, the empty string included, and never raises the
\* missing-username error.
C5_AlwaysOneProfileRequest ==
  Outcome("get") => (GetsProfile /\ last.exc # UsernameMissing)

\* C5 as amended: the same, except when oauth_key and oauth_secret are both
\* non-empty and oauthlib cannot be imported; get then sends no request and
\* leaves through sys.exit(0).
C5_ProfileRouting ==
  Outcome("get") =>
    /\ last.exc # UsernameMissing
    /\ IF OAuthUnavailable
       THEN Sent = <<>> /\ last.exc = "SystemExit"
       ELSE GetsProfile

C5_Witness ==
  /\ Outcome("get")
  /\ users[last.h].username = PyStr(<<>>)
  /\ Len(Sent) = 1
  /\ SentRequest.url = "https://api.bitbucket.org/2.0/teams/"
  /\ last.exc = ""

\* --------------------------------------------------------------------------
\* C6: on a handle bound to None, get_repos and repositories raise
\* Exception("username missing") and call the transport zero times; no call on
\* a handle bound to anything else, and no other operation, raises it.
C6_UsernameMissing ==
  /\ \A op \in {"get_repos", "repositories"} :
       (Outcome(op) /\ users[last.h].username = PyNone) =>
         (last.exc = UsernameMissing /\ last.ret = <<>> /\ last.events = <<>>)
  /\ last.exc = UsernameMissing =>
       /\ last.op \in {"get_repos", "repositories"}
       /\ users[last.h].username = PyNone

C6_Witness ==
  /\ Outcome("repositories")
  /\ users[last.h].username = PyNone
  /\ last.exc = UsernameMissing
  /\ Sent = <<>>

\* --------------------------------------------------------------------------
\* C7: what repositories hands to the transport and what it returns
ReposUrl(username) ==
  CASE username = PyStr(<<>>) -> "https://api.bitbucket.org/2.0/repositories/?pagelen=100"
    [] username = PyStr(<<"a", "l">>) -> "https://api.bitbucket.org/2.0/repositories/al?pagelen=100"

\* the response of the one request is a JSON object with a `values` field
HasValues ==
  /\ last.net.raises = ""
  /\ last.net.payload.kind = "json"
  /\ last.net.payload.doc.t = "obj"
  /\ "values" \in last.net.payload.doc.keys

ListsFirstPage ==
  /\ Len(Sent) = 1
  /\ SentRequest.url = ReposUrl(users[last.h].username)
  /\ get_method(SentRequest) = "GET"
  /\ last.exc = "" <=> HasValues
  /\ last.exc = "" => last.ret = <<last.net.payload.doc.values>>

\* C7 as stated: for every username but None, repositories issues exactly one
\* GET to {api_base}repositories/{username}?pagelen=100, no second request
\* whatever the response carries, and returns the `values` field of that
\* response, in order.
C7_AlwaysOneListRequest ==
  (Outcome("repositories") /\ users[last.h].username # PyNone) => ListsFirstPage

\* C7 as amended: the same, except when oauth_key and oauth_secret are both
\* non-empty and oauthlib cannot be imported; repositories then issues no
\* request, returns nothing and leaves through sys.exit(0).
C7_FirstPageValues ==
  (Outcome("repositories") /\ users[last.h].username # PyNone) =>
    IF OAuthUnavailable
    THEN Sent = <<>> /\ last.exc = "SystemExit" /\ last.ret = <<>>
    ELSE ListsFirstPage

C7_Witness ==
  /\ Outcome("repositories")
  /\ users[last.h].username = PyStr(<<"a", "l">>)
  /\ "next" \in last.net.payload.doc.keys
  /\ Len(Sent) = 1
  /\ last.exc = ""
  /\ last.ret = <<(<<"r1", "r2">>)>>

\* --------------------------------------------------------------------------
\* C8: the transport calls of one operation
IOOps == {"load_url", "emails", "create_repo", "get", "get_repos", "repositories"}

\* the guard of the operation called lets the call through
GuardPasses ==
  CASE last.op \in {"emails", "create_repo"} -> BasicSet
    [] last.op \in {"get_repos", "repositories"} -> users[last.h].username # PyNone
    [] OTHER -> TRUE

\* a failed transport call ends the operation: the failure is what the caller
\* gets, nothing is returned, nothing follows the call
FailurePropagates ==
  (Sent # <<>> /\ last.net.raises # "") =>
    /\ last.exc = last.net.raises
    /\ last.ret = <<>>
    /\ last.events[Len(last.events)].e = "urlopen"

\* C8 as stated: every operation that performs I/O calls the transport at most
\* once, exactly once when its guard passes, and a failure of that call
\* propagates with no retry, no second request and no result.
C8_OnceWheneverGuardPasses ==
  (last.op \in IOOps) =>
    /\ Len(Sent) <= 1
    /\ GuardPasses => Len(Sent) = 1
    /\ FailurePropagates

\* C8 as amended: every operation that performs I/O calls the transport at
\* most once: exactly once when its guard passes and build_request returns a
\* request, never when the guard fails, and never when oauth_key and
\* oauth_secret are both non-empty and oauthlib cannot be imported (the call
\* then leaves through sys.exit(0)); a failure of the one call propagates with
\* no retry, no second request and no result.
C8_AtMostOnce ==
  (last.op \in IOOps) =>
    /\ Len(Sent) <= 1
    /\ (GuardPasses /\ ~OAuthUnavailable) => Len(Sent) = 1
    /\ (GuardPasses /\ OAuthUnavailable) => (Sent = <<>> /\ last.exc = "SystemExit")
    /\ ~GuardPasses => Sent = <<>>
    /\ FailurePropagates

C8_Witness ==
  /\ Outcome("emails")
  /\ BasicSet
  /\ last.net.raises = "URLError"
  /\ Len(Sent) = 1
  /\ last.exc = "URLError"
  /\ last.ret = <<>>

\* --------------------------------------------------------------------------
\* C9: in every call that goes through load_url, with verbose set the URL
\* diagnostic comes first, before the request is built and handed to the
\* transport, and the response diagnostic comes last, right after the
\* transport returned the payload it shows; when the transport fails the URL
\* diagnostic has been printed and the response diagnostic is not.  With
\* verbose unset neither diagnostic is printed.
WentThroughLoadUrl == \E i \in 1..Len(last.events) : last.events[i].e = "build_request"

KeepsObjects ==
  /\ bb' = bb
  /\ Len(users') >= Len(users)
  /\ \A h \in DOMAIN users : users'[h] = users[h]

UserIsPure ==
  (last'.op = "user") =>
    /\ last'.events = <<>>
    /\ Len(users') = Len(users) + 1
    /\ users'[Len(users')].bb = "bb"
    /\ users'[Len(users')].username \in HandleNames

C10_Immutable == [][KeepsObjects /\ UserIsPure]_vars

C10_Witness ==
  /\ Outcome("get")
  /\ users[last.h] = User("bb", PyNone)
  /\ last.exc = "URLError"
  /\ BasicSet

====
